---- MODULE Spec2Model ----
(***************************************************************************)
(* Story/Task persistence, the service layer and the chat panel of         *)
(* copilot-team.                                                           *)
(*                                                                         *)
(* The SQLite tables `story` and `task` are sequences of rows in rowid     *)
(* order (an upsert on a stored id keeps the row's place, an insert        *)
(* appends).  Under Spec the TaskService calls are atomic steps of one     *)
(* caller: every store call is awaited before the next statement of the    *)
(* method runs.  Each step records the call, its arguments and its result  *)
(* in `ret`.  Under SpecConc several callers run updates at once and a     *)
(* step is the code between two awaits of the store.  Under SpecChat the   *)
(* steps are the handlers of the chat panel and the code of its workers    *)
(* between two awaits.  SpecOrder compares two entities.                   *)
(***************************************************************************)
EXTENDS Integers, Sequences, FiniteSets, TLC

VARIABLES
    story, task,        \* the rows of the two tables of the database
    ret,                \* the call that has just returned
    lhs, rhs,           \* the operands of a comparison
    processing,         \* ChatService._processing
    messages,           \* ChatService._messages
    workers,            \* the workers of the chat panel, in start order
    session,            \* ChatPanel._session
    enqueued,           \* every message passed to enqueue_message, in order
    handed,             \* every message passed to _async_send, in order
    sent,               \* every message passed to session.send, in order
    log,                \* the lines of the latest _async_send call that wrote
    handlers,           \* the calls whose handler is subscribed to the session
    conn,               \* SqliteTaskStoreBackend._conn
    opened,             \* number of connections opened so far
    schema,             \* the database file has the two tables
    callers,            \* the store operations in flight, one per caller
    runner,             \* the execute call of the AgentTaskRunner
    form                \* the story form screen and its widgets

storeVars == <<story, task, ret, lhs, rhs>>

chatVars == <<processing, messages, workers, session, enqueued, handed, sent,
              log, handlers>>

concVars == <<conn, opened, schema, callers>>

appVars == <<runner, form>>

vars == <<storeVars, chatVars, concVars, appVars>>

\* Python's None (a NULL column in SQLite).
None == "<None>"

\* ---------------------------------------------------------------- bounds
\* Largest number of events a session emits for one message.
MaxEvents == 2
\* Largest number of items of a task's checklist.
MaxItems == 2
\* Largest number of rows of the database, both tables together.
MaxRows == 2
\* Largest number of optional keys in a create/update payload.
MaxKeys == 1
\* Largest number of chat messages submitted.
MaxMsgs == 3
\* Largest number of workers of the chat panel alive at a time.
MaxWorkers == 2
\* Number of callers with concurrent store operations.
MaxCallers == 2

\* ------------------------------------------------------------ core/models
StoryStatus == <<"pending", "planning", "ready", "in_progress", "completed">>

TaskStatus == <<"pending", "planning", "ready", "in_progress", "completed">>

Range(s) == {s[i] : i \in 1..Len(s)}

status_priority ==
    [s \in Range(StoryStatus) |->
        CASE s = "pending" -> 0
          [] s = "planning" -> 1
          [] s = "ready" -> 2
          [] s = "in_progress" -> 3
          [] s = "completed" -> 4]

\* Code points of the strings used as names (Python compares str by code
\* point, so "B" < "a" < "ab" < "b").
CodePoints ==
    [n \in {"", "B", "a", "ab", "b"} |->
        CASE n = "" -> <<>>
          [] n = "B" -> <<66>>
          [] n = "a" -> <<97>>
          [] n = "ab" -> <<97, 98>>
          [] n = "b" -> <<98>>]

\* Python's str `<`: lexicographic on code points, a proper prefix first.
RECURSIVE LexLt(_, _)
LexLt(a, b) ==
    IF b = <<>> THEN FALSE
    ELSE IF a = <<>> THEN TRUE
    ELSE IF Head(a) # Head(b) THEN Head(a) < Head(b)
    ELSE LexLt(Tail(a), Tail(b))

StrLt(a, b) == LexLt(CodePoints[a], CodePoints[b])

\* Story.__lt__ without the comparison of names on equal statuses.
Story_lt_PriorityOnly(self, other) ==
    status_priority[self.status] < status_priority[other.status]

\* Story.__lt__
Story_lt(self, other) ==
    IF self.status = other.status
    THEN StrLt(self.name, other.name)
    ELSE status_priority[self.status] < status_priority[other.status]

\* Task.__lt__
Task_lt(self, other) ==
    IF self.status = other.status
    THEN StrLt(self.name, other.name)
    ELSE status_priority[self.status] < status_priority[other.status]

StoryFields == {"id", "name", "description", "status"}

TaskFields == {"id", "name", "description", "agent", "status",
               "repository_name", "branch_name", "story_id", "checklist"}

\* ------------------------------------------------------------ input values
Names == {"a", "b"}
TaskNames == {"a"}
Descriptions == {"d"}
\* "bogus" is a str outside the Literal.
StatusInputs == {"pending", "in_progress", "completed", "bogus"}
TaskStatusInputs == {"pending", "completed", "bogus"}
StoryIds == {"s1", "s2"}
TaskIds == {"t1", "t2"}
\* story_id values of a task: NULL, the empty string, a story's id.
StoryIdInputs == {None, "", "s1"}
OptionalInputs == {"x"}

StrInputs == Names \cup Descriptions \cup StatusInputs \cup StoryIds
             \cup TaskIds \cup StoryIdInputs \cup OptionalInputs

\* The dicts over the keys K whose values are drawn from Vals[k].
DictsOver(K, Vals) == {d \in [K -> StrInputs] : \A k \in K : d[k] \in Vals[k]}

\* The dicts with all of the keys `always`, any subset of `required` and at
\* most MaxKeys of the keys `optional`.
Dicts(required, optional, Vals) ==
    UNION {DictsOver(R \cup O, Vals) :
             R \in SUBSET required,
             O \in {o \in SUBSET optional : Cardinality(o) <= MaxKeys}}

StoryVals ==
    [k \in StoryFields |->
        CASE k = "id" -> StoryIds
          [] k = "name" -> Names
          [] k = "description" -> Descriptions
          [] k = "status" -> StatusInputs]

TaskVals ==
    [k \in TaskFields \ {"checklist"} |->
        CASE k = "id" -> TaskIds
          [] k = "name" -> TaskNames
          [] k = "description" -> Descriptions
          [] k = "status" -> TaskStatusInputs
          [] k = "story_id" -> StoryIdInputs
          [] k \in {"agent", "repository_name", "branch_name"} ->
               OptionalInputs]

\* ------------------------------------------------- pydantic construction
\* Story(**data): name and description are required, status must be one of
\* the Literal's values, id defaults to uuid4() and status to "pending".
StoryValid(data) ==
    /\ "name" \in DOMAIN data
    /\ "description" \in DOMAIN data
    /\ "status" \in DOMAIN data => data["status"] \in Range(StoryStatus)

Story(data, uuid) ==
    [id |-> IF "id" \in DOMAIN data THEN data["id"] ELSE uuid,
     name |-> data["name"],
     description |-> data["description"],
     status |-> IF "status" \in DOMAIN data THEN data["status"] ELSE "pending"]

\* Task(**data): name and description are required, status must be one of
\* the Literal's values; id defaults to uuid4(), status to "pending", the
\* optional strings to None and the checklist to [].
TaskValid(data) ==
    /\ "name" \in DOMAIN data
    /\ "description" \in DOMAIN data
    /\ "status" \in DOMAIN data => data["status"] \in Range(TaskStatus)

Default(data, k, v) == IF k \in DOMAIN data THEN data[k] ELSE v

Task(data, uuid) ==
    [id |-> Default(data, "id", uuid),
     name |-> data["name"],
     description |-> data["description"],
     agent |-> Default(data, "agent", None),
     status |-> Default(data, "status", "pending"),
     repository_name |-> Default(data, "repository_name", None),
     branch_name |-> Default(data, "branch_name", None),
     story_id |-> Default(data, "story_id", None),
     checklist |-> <<>>]

\* BaseModel.model_copy(update=data): the fields of data replace those of
\* the copy, without validation.
model_copy(e, data) ==
    [f \in DOMAIN e |-> IF f \in DOMAIN data THEN data[f] ELSE e[f]]

\* ------------------------------------------------ SqliteTaskStoreBackend
NoRow == 0

\* Position of the row with the given id, NoRow when there is none.
RowIndex(tbl, id) ==
    IF \E i \in 1..Len(tbl) : tbl[i].id = id
    THEN CHOOSE i \in 1..Len(tbl) : tbl[i].id = id
    ELSE NoRow

\* INSERT ... ON CONFLICT(id) DO UPDATE SET ...
Upsert(tbl, row) ==
    IF RowIndex(tbl, row.id) = NoRow
    THEN Append(tbl, row)
    ELSE [tbl EXCEPT ![RowIndex(tbl, row.id)] = row]

\* The result of a call: the entity or the list it returns, or the
\* exception it raises.
Ok(v) == [outcome |-> "ok", value |-> v]
OkList(l) == [outcome |-> "ok", items |-> l]
Raise(e) == [outcome |-> e]

\* _row_to_story: Story(id=..., name=..., description=..., status=...)
\* validates the row's status.
row_to_story(row) ==
    IF row.status \in Range(StoryStatus)
    THEN Ok([id |-> row.id, name |-> row.name,
             description |-> row.description, status |-> row.status])
    ELSE Raise("ValidationError")

\* [self._row_to_story(row) for row in rows]: the rows converted in order;
\* the first row that does not validate raises out of the comprehension.
RECURSIVE rows_to_stories(_, _)
rows_to_stories(rows, acc) ==
    IF rows = <<>> THEN OkList(acc)
    ELSE LET r == row_to_story(Head(rows)) IN
         IF r.outcome = "ok"
         THEN rows_to_stories(Tail(rows), Append(acc, r.value))
         ELSE r

put_story(tbl, s) ==
    Upsert(tbl, [id |-> s.id, name |-> s.name,
                 description |-> s.description, status |-> s.status])

\* get_story returning an empty story for a missing row instead of raising.
get_story_OrDefault(tbl, id) ==
    IF RowIndex(tbl, id) = NoRow
    THEN Ok([id |-> id, name |-> "", description |-> "", status |-> "pending"])
    ELSE row_to_story(tbl[RowIndex(tbl, id)])

get_story(tbl, id) ==
    IF RowIndex(tbl, id) = NoRow
    THEN Raise("StoryNotFoundError")
    ELSE row_to_story(tbl[RowIndex(tbl, id)])

\* `if status:` a None or empty status selects every row.
list_stories(tbl, status) ==
    LET Match(row) == row.status = status
        rows == IF status # None /\ status # ""
                THEN SelectSeq(tbl, Match) ELSE tbl
    IN rows_to_stories(rows, <<>>)


\* A JSON text is the sequence of its tokens: punctuation, string
\* literals (by the string they denote) and the literals true and false.
Punct(c) == [kind |-> "punct", text |-> c]

JsonString(s) == [kind |-> "string", text |-> s]

JsonBool(b) == [kind |-> "literal", text |-> IF b THEN "true" ELSE "false"]

\* The JSON object of item.model_dump(): the fields in declaration order.
model_dump(item) ==
    <<Punct("{"), JsonString("description"), Punct(":"),
      JsonString(item.description), Punct(","),
      JsonString("completed"), Punct(":"), JsonBool(item.completed),
      Punct("}")>>

\* The objects of a JSON array, separated by commas.
RECURSIVE dumps_items(_)
dumps_items(items) ==
    IF items = <<>> THEN <<>>
    ELSE IF Len(items) = 1 THEN model_dump(Head(items))
    ELSE model_dump(Head(items)) \o <<Punct(",")>> \o dumps_items(Tail(items))

\* json.dumps([item.model_dump() for item in checklist]): the text of an
\* array of {description, completed} objects, in the list's order.
\* A checklist column holds such a text, or NULL (null |-> TRUE).
json_dumps(checklist) ==
    [null |-> FALSE,
     json |-> <<Punct("[")>> \o dumps_items(checklist) \o <<Punct("]")>>]

\* json.loads of one object: the dict of its members, and the text after
\* the closing brace.
RECURSIVE loads_object(_, _)
loads_object(tokens, obj) ==
    IF Head(tokens) = Punct("}") THEN [dict |-> obj, rest |-> Tail(tokens)]
    ELSE IF Head(tokens) \in {Punct("{"), Punct(",")}
    THEN loads_object(Tail(tokens), obj)
    ELSE loads_object(Tail(Tail(Tail(tokens))),
                      [k \in DOMAIN obj \cup {tokens[1].text} |->
                         IF k = tokens[1].text THEN tokens[3] ELSE obj[k]])

\* TaskChecklistItem with a flag that is always the default False.
TaskChecklistItem_DefaultFlag(item) ==
    [description |-> item["description"].text,
     completed |-> FALSE]

\* TaskChecklistItem(**item): description, and completed (default False).
TaskChecklistItem(item) ==
    [description |-> item["description"].text,
     completed |-> IF "completed" \in DOMAIN item
                   THEN item["completed"].text = "true" ELSE FALSE]

\* The items of a JSON array, in the array's order.
RECURSIVE loads_items(_, _)
loads_items(tokens, acc) ==
    IF tokens = <<>> \/ Head(tokens) = Punct("]") THEN acc
    ELSE IF Head(tokens) \in {Punct("["), Punct(",")}
    THEN loads_items(Tail(tokens), acc)
    ELSE LET o == loads_object(tokens, <<>>)
         IN loads_items(o.rest, Append(acc, TaskChecklistItem(o.dict)))

\* [TaskChecklistItem(**item) for item in json.loads(text)]
json_loads(text) == loads_items(text.json, <<>>)

\* _row_to_task reads only the columns of the table: agent,
\* repository_name and branch_name take the model's default.  A NULL
\* checklist column reads as [] (`if row["checklist"]:`; the text "[]" is a
\* non-empty str).
row_to_task(row) ==
    IF row.status \in Range(TaskStatus)
    THEN Ok([id |-> row.id,
             name |-> row.name,
             description |-> row.description,
             agent |-> None,
             status |-> row.status,
             repository_name |-> None,
             branch_name |-> None,
             story_id |-> row.story_id,
             checklist |-> IF row.checklist.null \/ row.checklist.json = <<>>
                           THEN <<>>
                           ELSE json_loads(row.checklist)])
    ELSE Raise("ValidationError")

\* [self._row_to_task(row) for row in rows]
RECURSIVE rows_to_tasks(_, _)
rows_to_tasks(rows, acc) ==
    IF rows = <<>> THEN OkList(acc)
    ELSE LET r == row_to_task(Head(rows)) IN
         IF r.outcome = "ok"
         THEN rows_to_tasks(Tail(rows), Append(acc, r.value))
         ELSE r

\* The task table has the columns id, name, status, description, checklist
\* and story_id.  The FOREIGN KEY on story_id is not enforced: the
\* connection never sets PRAGMA foreign_keys.  A Task's checklist is a
\* list here (never None), so checklist_json is always a text.
put_task(tbl, t) ==
    Upsert(tbl, [id |-> t.id,
                 name |-> t.name,
                 status |-> t.status,
                 description |-> t.description,
                 checklist |-> json_dumps(t.checklist),
                 story_id |-> t.story_id])

get_task(tbl, id) ==
    IF RowIndex(tbl, id) = NoRow
    THEN Raise("TaskNotFoundError")
    ELSE row_to_task(tbl[RowIndex(tbl, id)])

\* Python truthiness of an optional str: `if status:`, `if story_id:`.
Truthy(v) == v # None /\ v # ""

\* The WHERE clause holds one condition per truthy filter, joined by AND.
list_tasks(tbl, status, story_id) ==
    LET Match(row) == /\ Truthy(status) => row.status = status
                      /\ Truthy(story_id) => row.story_id = story_id
    IN rows_to_tasks(SelectSeq(tbl, Match), <<>>)

\* --------------------------------------------------- BaseTaskStoreBackend
\* A call that returns None.
OkNone == [outcome |-> "ok", null |-> TRUE]

\* get_next_task taking the last task of the list.
get_next_task_Last(tbl, status) ==
    LET tasks == list_tasks(tbl, status, None) IN
    IF tasks.outcome # "ok" THEN tasks
    ELSE IF tasks.items = <<>> THEN OkNone
    ELSE Ok(tasks.items[Len(tasks.items)])

\* next((task for task in await self.list_tasks(status=status)), None)
get_next_task(tbl, status) ==
    LET tasks == list_tasks(tbl, status, None) IN
    IF tasks.outcome # "ok" THEN tasks
    ELSE IF tasks.items = <<>> THEN OkNone
    ELSE Ok(Head(tasks.items))

\* The statuses searched taken in the enumeration's order.
status_search_EnumerationOrder ==
    <<"pending", "planning", "ready", "in_progress">>

\* status_search of list_non_completed_stories.
status_search == <<"in_progress", "ready", "planning", "pending">>

\* for status in status_search: stories.extend(list_stories(status=status))
RECURSIVE extend_stories(_, _, _)
extend_stories(tbl, statuses, stories) ==
    IF statuses = <<>> THEN OkList(stories)
    ELSE LET partia_stories == list_stories(tbl, Head(statuses)) IN
         IF partia_stories.outcome # "ok" THEN partia_stories
         ELSE extend_stories(tbl, Tail(statuses),
                             stories \o partia_stories.items)

list_non_completed_stories(tbl) == extend_stories(tbl, status_search, <<>>)

\* ------------------------------------------------------------ TaskService
\* Each operator gives the call's result and the table it leaves.
Done(r, tbl) == [result |-> r, table |-> tbl]

\* create_story writing the row before the model is validated.
create_story_WriteFirst(tbl, data, uuid) ==
    LET row == [id |-> Default(data, "id", uuid),
                name |-> Default(data, "name", ""),
                description |-> Default(data, "description", ""),
                status |-> Default(data, "status", "pending")]
    IN IF ~StoryValid(data)
       THEN Done(Raise("ValidationError"), put_story(tbl, row))
       ELSE Done(Ok(row), put_story(tbl, row))

create_story(tbl, data, uuid) ==
    IF ~StoryValid(data)
    THEN Done(Raise("ValidationError"), tbl)
    ELSE LET s == Story(data, uuid) IN Done(Ok(s), put_story(tbl, s))

\* update_story as an upsert: a missing story is inserted from the payload.
update_story_Upsert(tbl, story_id, data) ==
    LET existing == get_story(tbl, story_id)
        base == IF existing.outcome = "ok" THEN existing.value
                ELSE [id |-> story_id, name |-> "a", description |-> "d",
                      status |-> "pending"]
        updated == model_copy(base, data)
    IN Done(Ok(updated), put_story(tbl, updated))

update_story(tbl, story_id, data) ==
    LET existing == get_story(tbl, story_id) IN
    IF existing.outcome # "ok"
    THEN Done(existing, tbl)
    ELSE LET updated == model_copy(existing.value, data)
         IN Done(Ok(updated), put_story(tbl, updated))

save_story(tbl, s) == Done(Ok(s), put_story(tbl, s))

create_task(tbl, data, uuid) ==
    IF ~TaskValid(data)
    THEN Done(Raise("ValidationError"), tbl)
    ELSE LET t == Task(data, uuid) IN Done(Ok(t), put_task(tbl, t))

update_task(tbl, task_id, data) ==
    LET existing == get_task(tbl, task_id) IN
    IF existing.outcome # "ok"
    THEN Done(existing, tbl)
    ELSE LET updated == model_copy(existing.value, data)
         IN Done(Ok(updated), put_task(tbl, updated))

save_task(tbl, t) == Done(Ok(t), put_task(tbl, t))

\* [t for t in all_tasks if t.story_id is None]
list_unassigned_tasks(tbl) ==
    LET all_tasks == list_tasks(tbl, None, None)
        Unassigned(t) == t.story_id = None
    IN IF all_tasks.outcome # "ok" THEN all_tasks
       ELSE OkList(SelectSeq(all_tasks.items, Unassigned))

\* ----------------------------------------------------- agents/tools
\* dict.pop(key) leaving the key in the dict, as dict.get(key) would.
pop_KeepsKey(args, key) == [value |-> args[key], rest |-> args]

\* args.pop(key): the value, and the dict without the key.
pop(args, key) ==
    [value |-> args[key],
     rest |-> [k \in DOMAIN args \ {key} |-> args[k]]]

\* _update_story: story_id = args.pop("id"), then
\* service.update_story(story_id, args); the payload handed over is kept
\* with the result.
tool_update_story(tbl, args) ==
    IF "id" \notin DOMAIN args
    THEN [result |-> Raise("KeyError"), table |-> tbl, data |-> args]
    ELSE LET p == pop(args, "id")
             r == update_story(tbl, p.value, p.rest)
         IN [result |-> r.result, table |-> r.table, data |-> p.rest]

\* _update_task
tool_update_task(tbl, args) ==
    IF "id" \notin DOMAIN args
    THEN [result |-> Raise("KeyError"), table |-> tbl, data |-> args]
    ELSE LET p == pop(args, "id")
             r == update_task(tbl, p.value, p.rest)
         IN [result |-> r.result, table |-> r.table, data |-> p.rest]

\* ------------------------------------------------------------ story steps
\* `ret` holds the call that has just returned, with its arguments and its
\* result, until the caller takes it.
NoCall == [op |-> "none"]

Call(op, args, r) == [op |-> op, args |-> args, result |-> r]

Call0(op, r) == [op |-> op, result |-> r]

\* uuid4() gives an id no row has; the id it gives matters only when the
\* payload carries no id and the entity is constructed.
FreshIds(tbl, pool, data, valid) ==
    {u \in pool : "id" \in DOMAIN data \/ ~valid \/ RowIndex(tbl, u) = NoRow}

\* The caller has taken the result of the previous call.
Idle == ret.op = "none"

CreateStoryData == Dicts({"name", "description"}, {"id", "status"}, StoryVals)

UpdateStoryData == Dicts({}, StoryFields, StoryVals)

CreateStory ==
    /\ Idle
    /\ \E data \in CreateStoryData :
       \E uuid \in FreshIds(story, StoryIds, data, StoryValid(data)) :
           LET r == create_story(story, data, uuid) IN
           /\ Len(r.table) + Len(task) <= MaxRows
           /\ story' = r.table
           /\ ret' = Call("create_story", [data |-> data], r.result)
           /\ UNCHANGED <<task, lhs, rhs, chatVars, concVars, appVars>>

UpdateStory ==
    /\ Idle
    /\ \E id \in StoryIds : \E data \in UpdateStoryData :
           LET r == update_story(story, id, data) IN
           /\ Len(r.table) + Len(task) <= MaxRows
           /\ story' = r.table
           /\ ret' = Call("update_story", [id |-> id, data |-> data], r.result)
           /\ UNCHANGED <<task, lhs, rhs, chatVars, concVars, appVars>>

StoryEntities ==
    [id : StoryIds, name : Names, description : Descriptions,
     status : Range(StoryStatus)]

SaveStory ==
    /\ Idle
    /\ \E s \in StoryEntities :
           LET r == save_story(story, s) IN
           /\ Len(r.table) + Len(task) <= MaxRows
           /\ story' = r.table
           /\ ret' = Call("save_story", [story |-> s], r.result)
           /\ UNCHANGED <<task, lhs, rhs, chatVars, concVars, appVars>>

GetStory ==
    /\ Idle
    /\ \E id \in StoryIds :
           /\ ret' = Call("get_story", [id |-> id], get_story(story, id))
           /\ UNCHANGED <<story, task, lhs, rhs, chatVars, concVars, appVars>>

ListStories ==
    /\ Idle
    /\ \E status \in Range(StoryStatus) \cup {None} :
           /\ ret' = Call("list_stories", [status |-> status],
                          list_stories(story, status))
           /\ UNCHANGED <<story, task, lhs, rhs, chatVars, concVars, appVars>>

\* ChatPanel.__init__ and ChatService.__init__: no session, the flag
\* cleared, an empty deque, no worker started.
\* No execute call has started.
NoRun == [pc |-> "idle", prompt |-> <<>>, finish_event |-> FALSE,
          session |-> "none", events |-> 0]

\* self._story = None and the values compose() starts the widgets with.
NewStoryForm ==
    [screen |-> "form", editing |-> FALSE,
     story |-> [id |-> "", name |-> "", description |-> "", status |-> ""],
     name |-> "", description |-> "", status |-> "created"]

\* No form is on the screen stack.
NoForm == [NewStoryForm EXCEPT !.screen = "closed"]

\* No execute call and no story form at the start.
AppInit ==
    /\ runner = NoRun
    /\ form = NoForm

ChatInit ==
    /\ processing = FALSE
    /\ messages = <<>>
    /\ workers = <<>>
    /\ session = None
    /\ enqueued = <<>>
    /\ handed = <<>>
    /\ sent = <<>>
    /\ log = [call |-> 0, lines |-> <<>>]
    /\ handlers = {}

\* self._conn = None
NoConn == 0

\* The callers that can have a store operation in flight.
Callers == 1..MaxCallers

NoOp == [pc |-> "idle"]

\* SqliteTaskStoreBackend.__init__: no connection, no operation started.
BackendInit ==
    /\ conn = NoConn
    /\ opened = 0
    /\ callers = [c \in Callers |-> NoOp]

Init ==
    /\ story = <<>>
    /\ task = <<>>
    /\ ret = NoCall
    /\ lhs = None
    /\ rhs = None
    /\ ChatInit
    /\ BackendInit
    /\ schema = TRUE
    /\ AppInit

\* ------------------------------------------------------------- task steps
CreateTaskData ==
    Dicts({"name", "description"},
          {"id", "status", "story_id", "agent", "repository_name",
           "branch_name"}, TaskVals)

UpdateTaskData == Dicts({}, TaskFields \ {"checklist"}, TaskVals)

TaskEntities ==
    [id : TaskIds, name : TaskNames, description : Descriptions,
     agent : {None} \cup OptionalInputs,
     status : TaskStatusInputs \cap Range(TaskStatus),
     repository_name : {None}, branch_name : {None},
     story_id : StoryIdInputs, checklist : {<<>>}]

CreateTask ==
    /\ Idle
    /\ \E data \in CreateTaskData :
       \E uuid \in FreshIds(task, TaskIds, data, TaskValid(data)) :
           LET r == create_task(task, data, uuid) IN
           /\ Len(story) + Len(r.table) <= MaxRows
           /\ task' = r.table
           /\ ret' = Call("create_task", [data |-> data], r.result)
           /\ UNCHANGED <<story, lhs, rhs, chatVars, concVars, appVars>>

UpdateTask ==
    /\ Idle
    /\ \E id \in TaskIds : \E data \in UpdateTaskData :
           LET r == update_task(task, id, data) IN
           /\ Len(story) + Len(r.table) <= MaxRows
           /\ task' = r.table
           /\ ret' = Call("update_task", [id |-> id, data |-> data], r.result)
           /\ UNCHANGED <<story, lhs, rhs, chatVars, concVars, appVars>>

SaveTask ==
    /\ Idle
    /\ \E t \in TaskEntities :
           LET r == save_task(task, t) IN
           /\ Len(story) + Len(r.table) <= MaxRows
           /\ task' = r.table
           /\ ret' = Call("save_task", [task |-> t], r.result)
           /\ UNCHANGED <<story, lhs, rhs, chatVars, concVars, appVars>>

GetTask ==
    /\ Idle
    /\ \E id \in TaskIds :
           /\ ret' = Call("get_task", [id |-> id], get_task(task, id))
           /\ UNCHANGED <<story, task, lhs, rhs, chatVars, concVars, appVars>>

ListTasks ==
    /\ Idle
    /\ \E status \in (TaskStatusInputs \cap Range(TaskStatus)) \cup {None} :
       \E story_id \in StoryIdInputs :
           /\ ret' = Call("list_tasks", [status |-> status, story_id |-> story_id],
                          list_tasks(task, status, story_id))
           /\ UNCHANGED <<story, task, lhs, rhs, chatVars, concVars, appVars>>

ListUnassignedTasks ==
    /\ Idle
    /\ ret' = Call0("list_unassigned_tasks", list_unassigned_tasks(task))
    /\ UNCHANGED <<story, task, lhs, rhs, chatVars, concVars, appVars>>

ListNonCompletedStories ==
    /\ Idle
    /\ ret' = Call0("list_non_completed_stories",
                    list_non_completed_stories(story))
    /\ UNCHANGED <<story, task, lhs, rhs, chatVars, concVars, appVars>>

GetNextTask ==
    /\ Idle
    /\ \E status \in TaskStatusInputs \cap Range(TaskStatus) :
           /\ ret' = Call("get_next_task", [status |-> status],
                          get_next_task(task, status))
           /\ UNCHANGED <<story, task, lhs, rhs, chatVars, concVars, appVars>>

\* The arguments of the update tools: an id (a call without one fails) and
\* the fields to change.
ToolUpdateStoryArgs == Dicts({"id"}, StoryFields \ {"id"}, StoryVals)

ToolUpdateTaskArgs ==
    Dicts({"id"}, TaskFields \ {"id", "checklist"}, TaskVals)

ToolUpdateStory ==
    /\ Idle
    /\ \E args \in ToolUpdateStoryArgs :
           LET r == tool_update_story(story, args) IN
           /\ story' = r.table
           /\ ret' = Call("tool_update_story",
                          [args |-> args, data |-> r.data], r.result)
           /\ UNCHANGED <<task, lhs, rhs, chatVars, concVars, appVars>>

ToolUpdateTask ==
    /\ Idle
    /\ \E args \in ToolUpdateTaskArgs :
           LET r == tool_update_task(task, args) IN
           /\ task' = r.table
           /\ ret' = Call("tool_update_task",
                          [args |-> args, data |-> r.data], r.result)
           /\ UNCHANGED <<story, lhs, rhs, chatVars, concVars, appVars>>

\* The caller takes the result; the next call can start.
Return ==
    /\ ~Idle
    /\ ret' = NoCall
    /\ UNCHANGED <<story, task, lhs, rhs, chatVars, concVars, appVars>>

\* ------------------------------------------------------------ comparison
\* Two stories, or two tasks, are compared with `<`.
OrderNames == DOMAIN CodePoints

OrderStories ==
    [id : StoryIds, name : OrderNames, description : Descriptions,
     status : Range(StoryStatus)]

OrderTasks ==
    [id : TaskIds, name : OrderNames, description : Descriptions,
     agent : {None}, status : Range(TaskStatus), repository_name : {None},
     branch_name : {None}, story_id : {None}, checklist : {<<>>}]

IsTask(e) == "story_id" \in DOMAIN e

InitOrder ==
    /\ story = <<>>
    /\ task = <<>>
    /\ ret = NoCall
    /\ \/ lhs \in OrderStories /\ rhs \in OrderStories
       \/ lhs \in OrderTasks /\ rhs \in OrderTasks
    /\ ChatInit
    /\ BackendInit
    /\ schema = TRUE
    /\ AppInit

CompareStories ==
    /\ Idle
    /\ ~IsTask(lhs)
    /\ ret' = Call0("Story.__lt__", [outcome |-> "ok",
                                      truth |-> Story_lt(lhs, rhs)])
    /\ UNCHANGED <<story, task, lhs, rhs, chatVars, concVars, appVars>>

CompareTasks ==
    /\ Idle
    /\ IsTask(lhs)
    /\ ret' = Call0("Task.__lt__", [outcome |-> "ok",
                                     truth |-> Task_lt(lhs, rhs)])
    /\ UNCHANGED <<story, task, lhs, rhs, chatVars, concVars, appVars>>

\* BaseModel.__eq__: the same model with equal values in every field.
Model_eq(self, other) == self = other

\* The `<` of the two operands' class.
Model_lt(self, other) ==
    IF IsTask(self) THEN Task_lt(self, other) ELSE Story_lt(self, other)

\* functools.total_ordering, _gt_from_lt: not (self < other) and
\* self != other.
Model_gt(self, other) == ~Model_lt(self, other) /\ ~Model_eq(self, other)

\* a < b, a == b, a > b and b < a are evaluated for the two operands.
RichCompare ==
    /\ Idle
    /\ ret' = Call0("compare", [outcome |-> "ok",
                                lt |-> Model_lt(lhs, rhs),
                                eq |-> Model_eq(lhs, rhs),
                                gt |-> Model_gt(lhs, rhs),
                                swapped_lt |-> Model_lt(rhs, lhs)])
    /\ UNCHANGED <<story, task, lhs, rhs, chatVars, concVars, appVars>>

OrderNext ==
    \/ Return
    \/ CompareStories
    \/ CompareTasks
    \/ RichCompare

SpecOrder == InitOrder /\ [][OrderNext]_vars

\* ------------------------------------------------------- checklist column
ItemDescriptions == {"x", "y"}

ChecklistItems == [description : ItemDescriptions, completed : BOOLEAN]

Checklists == UNION {[1..n -> ChecklistItems] : n \in 0..MaxItems}

\* Tasks as a caller of put_task holds them: validated models.
ChecklistTasks ==
    [id : TaskIds, name : TaskNames, description : Descriptions,
     agent : {None}, status : {"pending"},
     repository_name : {None}, branch_name : {None},
     story_id : {None}, checklist : Checklists]

\* put_task(task): the row at task.id is inserted or replaced.
PutTask ==
    /\ Idle
    /\ \E t \in ChecklistTasks :
           /\ task' = put_task(task, t)
           /\ ret' = Call("put_task", [task |-> t], OkNone)
           /\ UNCHANGED <<story, lhs, rhs, chatVars, concVars, appVars>>

ChecklistNext == \/ Return \/ PutTask \/ GetTask

SpecChecklist == Init /\ [][ChecklistNext]_vars

Next ==
    \/ Return
    \/ CreateStory
    \/ UpdateStory
    \/ SaveStory
    \/ GetStory
    \/ ListStories
    \/ CreateTask
    \/ UpdateTask
    \/ SaveTask
    \/ GetTask
    \/ ListTasks
    \/ ListUnassignedTasks
    \/ ListNonCompletedStories
    \/ GetNextTask
    \/ ToolUpdateStory
    \/ ToolUpdateTask

Spec == Init /\ [][Next]_vars

\* ------------------------------------------------------------ ChatService
\* enqueue_message answering with the flag alone.
enqueue_message_FlagOnly(proc, msgs, message) ==
    [result |-> proc, messages |-> Append(msgs, message)]

\* enqueue_message: the flag or a non-empty deque before the append is the
\* result.
enqueue_message(proc, msgs, message) ==
    [result |-> proc \/ msgs # <<>>, messages |-> Append(msgs, message)]

\* next_message taking the newest message: pop() instead of popleft().
next_message_Pop(msgs) ==
    IF msgs = <<>>
    THEN [result |-> None, messages |-> msgs]
    ELSE [result |-> msgs[Len(msgs)],
          messages |-> SubSeq(msgs, 1, Len(msgs) - 1)]

\* next_message: None on an empty deque, else popleft().
next_message(msgs) ==
    IF msgs = <<>>
    THEN [result |-> None, messages |-> msgs]
    ELSE [result |-> Head(msgs), messages |-> Tail(msgs)]

\* -------------------------------------------------------------- ChatPanel
\* The texts of the input widget and what str.strip() makes of them.
InputValues == {"", " ", "a", " b"}

strip ==
    [text \in InputValues |->
        CASE text = "" -> ""
          [] text = " " -> ""
          [] text = "a" -> "a"
          [] text = " b" -> "b"]

\* A worker is an asyncio task of the panel: the coroutine it runs, the
\* await it is suspended at ("start" before its first step), whether it was
\* cancelled, the message of the _async_send call it is in with the number
\* of that call, the number of events its handler was called with, and the
\* locals of the call that the handler closes over.
Worker(kind) == [kind |-> kind, pc |-> "start", cancelled |-> FALSE,
                 message |-> "", call |-> 0, events |-> 0,
                 response_parts |-> <<>>, received_delta |-> FALSE,
                 wrote_assistant_label |-> FALSE, done |-> FALSE]

Remove(seq, i) == SubSeq(seq, 1, i - 1) \o SubSeq(seq, i + 1, Len(seq))

\* run_worker without exclusive=True: no worker is cancelled.
run_worker_NotExclusive(ws, kind) == Append(ws, Worker(kind))

\* run_worker(..., exclusive=True): every worker of the panel (one group)
\* is cancelled, then the new one is scheduled.
run_worker(ws, kind) ==
    Append([i \in 1..Len(ws) |-> [ws[i] EXCEPT !.cancelled = TRUE]],
           Worker(kind))

\* Worker i resumes normally at the await `at`.
Resumes(i, kind, at) ==
    /\ i \in 1..Len(workers)
    /\ workers[i].kind \in kind
    /\ workers[i].pc = at
    /\ ~workers[i].cancelled

\* A piece of text: its markup and the characters.
Piece(markup, text) == [markup |-> markup, text |-> text]

\* f"[red]Error: {event.data.message}[/red]"
ErrorText(message) == Piece("red", message)

\* A line of the chat log: its label and the text after it.
Line(label, text) == [label |-> label, text |-> text]

TimedOutLine == Line("Response timed out.", <<>>)

NoResponseLine == Line("No response received.", <<>>)

SessionCreatedLine == Line("Session created", <<>>)

\* f"[red]Error: {exc}[/red]"
ExceptionLine == Line("Error:", <<>>)

\* log.write by the _async_send call number `call`: the log keeps the
\* lines of the latest call that wrote.
Write(lg, call, lines) ==
    IF lines = <<>> THEN lg
    ELSE IF lg.call = call THEN [lg EXCEPT !.lines = @ \o lines]
    ELSE [call |-> call, lines |-> lines]

\* The events a session emits: a delta with or without content, a whole
\* assistant message, session.idle, session.error.
EventInputs ==
    {[type |-> "assistant.message.delta", content |-> ""],
     [type |-> "assistant.message.delta", content |-> "x"],
     [type |-> "assistant.message", content |-> "m"],
     [type |-> "session.idle", content |-> ""],
     [type |-> "session.error", content |-> "e"]}

\* handler(event): what it does to the locals of the call.
handler(w, event) ==
    CASE event.type = "assistant.message.delta" ->
           [w EXCEPT !.response_parts = Append(@, Piece("", event.content)),
                     !.received_delta = @ \/ event.content # "",
                     !.wrote_assistant_label = @ \/ event.content # ""]
      [] event.type = "assistant.message" ->
           [w EXCEPT !.response_parts = <<Piece("", event.content)>>]
      [] event.type = "session.idle" ->
           [w EXCEPT !.done = TRUE]
      [] event.type = "session.error" ->
           [w EXCEPT !.response_parts = Append(@, ErrorText(event.content)),
                     !.done = TRUE]

\* handler(event): the lines it writes, a delta with content at once.
handler_lines(w, event) ==
    IF event.type = "assistant.message.delta" /\ event.content # ""
    THEN IF ~w.wrote_assistant_label
         THEN <<Line("Assistant:", <<Piece("", event.content)>>)>>
         ELSE <<Line("", <<Piece("", event.content)>>)>>
    ELSE <<>>

\* "".join(response_parts): the pieces that have characters.
join(parts) ==
    LET HasText(p) == p.text # "" IN SelectSeq(parts, HasText)

\* The end of _async_send after the wait: the warning after a timeout, then
\* the no-response line when nothing was received or the text is empty, or
\* the whole text when no delta with content was written.
response_lines(w, timed_out) ==
    (IF timed_out THEN <<TimedOutLine>> ELSE <<>>)
    \o (IF join(w.response_parts) = <<>> THEN <<NoResponseLine>>
        ELSE IF ~w.received_delta
        THEN <<Line("Assistant:", join(w.response_parts))>>
        ELSE <<>>)

\* _async_send(message) up to its first await: _ensure_session() when there
\* is no session, else the handler is subscribed and session.send(...) is
\* awaited.  lg and hs are the log and the subscribed handlers as the
\* statements before left them.
AsyncSend(i, message, lg, hs) ==
    LET w == [Worker("process_queue") EXCEPT !.message = message,
                                             !.call = Len(handed) + 1]
    IN /\ log' = lg
       /\ IF session = None
          THEN /\ workers' = [workers EXCEPT ![i] = [w EXCEPT !.pc = "create"]]
               /\ handlers' = hs
               /\ UNCHANGED <<session, sent>>
          ELSE /\ workers' = [workers EXCEPT ![i] = [w EXCEPT !.pc = "send"]]
               /\ handlers' = hs \cup {w.call}
               /\ sent' = Append(sent, message)
               /\ UNCHANGED session

\* `while message := next_message(): await _async_send(message)` from the
\* loop's head, with the `finally: set_processing(False)` that ends it;
\* proc, lg and hs are the flag, the log and the subscribed handlers as the
\* statements before the head left them.
LoopHead(i, proc, lg, hs) ==
    LET nm == next_message(messages) IN
    /\ ret' = Call("next_message", [queue |-> messages], Ok(nm.result))
    /\ messages' = nm.messages
    /\ IF Truthy(nm.result)
       THEN /\ processing' = proc
            /\ handed' = Append(handed, nm.result)
            /\ AsyncSend(i, nm.result, lg, hs)
       ELSE /\ processing' = FALSE
            /\ workers' = Remove(workers, i)
            /\ log' = lg
            /\ handlers' = hs
            /\ UNCHANGED <<session, handed, sent>>
    /\ UNCHANGED <<story, task, lhs, rhs, enqueued, concVars, appVars>>

\* _send_message: an empty text is dropped; the message is enqueued and the
\* drain loop is started unless the flag is set.
SendMessage ==
    \E text \in InputValues :
        LET message == strip[text]
            r == enqueue_message(processing, messages, message)
        IN /\ message # ""
           /\ Len(enqueued) < MaxMsgs
           /\ messages' = r.messages
           /\ enqueued' = Append(enqueued, message)
           /\ ret' = Call("enqueue_message", [message |-> message],
                          [outcome |-> "ok", truth |-> r.result])
           /\ IF ~processing
              THEN /\ Len(workers) < MaxWorkers
                   /\ workers' = run_worker(workers, "process_queue")
              ELSE UNCHANGED workers
           /\ UNCHANGED <<story, task, lhs, rhs, processing, session, handed,
                          sent, log, handlers, concVars, appVars>>

\* _start_new_session
PressNewSession ==
    /\ Len(workers) < MaxWorkers
    /\ workers' = run_worker(workers, "new_session")
    /\ UNCHANGED <<storeVars, processing, messages, session, enqueued,
                   handed, sent, log, handlers, concVars, appVars>>

\* _recreate_session
PressRecreateSession ==
    /\ Len(workers) < MaxWorkers
    /\ workers' = run_worker(workers, "recreate_session")
    /\ UNCHANGED <<storeVars, processing, messages, session, enqueued,
                   handed, sent, log, handlers, concVars, appVars>>

SessionWorkers == {"new_session", "recreate_session"}

\* First step of _async_process_queue: set_processing(True), then the loop.
StartProcessQueue ==
    \E i \in 1..Len(workers) :
        /\ Resumes(i, {"process_queue"}, "start")
        /\ LoopHead(i, TRUE, log, handlers)

\* First step of _async_new_session / _async_recreate_session: a session is
\* destroyed first, else _ensure_session() is awaited at once.
StartSessionWorker ==
    \E i \in 1..Len(workers) :
        /\ Resumes(i, SessionWorkers, "start")
        /\ workers' = [workers EXCEPT
                         ![i].pc = IF session # None THEN "destroy"
                                   ELSE "create"]
        /\ UNCHANGED <<storeVars, processing, messages, session, enqueued,
                       handed, sent, log, handlers, concVars, appVars>>

\* session.destroy() returns, or raises an Exception that is passed over;
\* then self._session = None and _ensure_session() is awaited.  The panel
\* holds no session, so no handler is subscribed to its session.
DestroyReturns ==
    \E i \in 1..Len(workers) :
        /\ Resumes(i, SessionWorkers, "destroy")
        /\ session' = None
        /\ handlers' = {}
        /\ workers' = [workers EXCEPT ![i].pc = "create"]
        /\ UNCHANGED <<storeVars, processing, messages, enqueued, handed,
                       sent, log, concVars, appVars>>

\* create_session() returns: the session is stored; _async_send subscribes
\* its handler and goes on to session.send(...), a session worker ends.
SessionCreated ==
    \E i \in 1..Len(workers) :
        /\ Resumes(i, SessionWorkers \cup {"process_queue"}, "create")
        /\ session' = "session"
        /\ IF workers[i].kind = "process_queue"
           THEN /\ workers' = [workers EXCEPT ![i].pc = "send"]
                /\ sent' = Append(sent, workers[i].message)
                /\ handlers' = handlers \cup {workers[i].call}
                /\ log' = Write(log, workers[i].call, <<SessionCreatedLine>>)
           ELSE /\ workers' = Remove(workers, i)
                /\ UNCHANGED <<sent, log, handlers>>
        /\ UNCHANGED <<storeVars, processing, messages, enqueued, handed,
                       concVars, appVars>>

\* create_session() raises in _async_send: the error is logged and the loop
\* goes on.
SessionCreateFails ==
    \E i \in 1..Len(workers) :
        /\ Resumes(i, {"process_queue"}, "create")
        /\ LoopHead(i, processing,
                    Write(log, workers[i].call, <<ExceptionLine>>), handlers)

\* create_session() raises in a session worker: the worker ends in error.
SessionWorkerFails ==
    \E i \in 1..Len(workers) :
        /\ Resumes(i, SessionWorkers, "create")
        /\ workers' = Remove(workers, i)
        /\ UNCHANGED <<storeVars, processing, messages, session, enqueued,
                       handed, sent, log, handlers, concVars, appVars>>

\* The handler of worker i is subscribed to the panel's session.
Subscribed(ws, i) ==
    /\ ws[i].kind = "process_queue"
    /\ ws[i].pc \in {"send", "wait"}
    /\ ws[i].call \in handlers

\* The log after the subscribed handlers of the workers from i on have run.
RECURSIVE emit_log(_, _, _, _)
emit_log(lg, ws, i, event) ==
    IF i > Len(ws) THEN lg
    ELSE emit_log(IF Subscribed(ws, i)
                  THEN Write(lg, ws[i].call, handler_lines(ws[i], event))
                  ELSE lg,
                  ws, i + 1, event)

\* The workers after the subscribed handlers have run.
emit(ws, event) ==
    [i \in 1..Len(ws) |->
        IF Subscribed(ws, i)
        THEN [handler(ws[i], event) EXCEPT !.events = @ + 1]
        ELSE ws[i]]

\* The session has a subscribed handler, and none has seen MaxEvents events.
Emits ==
    /\ session # None
    /\ \E i \in 1..Len(workers) : Subscribed(workers, i)
    /\ \A i \in 1..Len(workers) :
           Subscribed(workers, i) => workers[i].events < MaxEvents

\* The session emits an event: every subscribed handler is called with it.
SessionEvent ==
    /\ Emits
    /\ \E event \in EventInputs :
           /\ workers' = emit(workers, event)
           /\ log' = emit_log(log, workers, 1, event)
    /\ UNCHANGED <<storeVars, processing, messages, session, enqueued,
                   handed, sent, handlers, concVars, appVars>>

\* The session goes idle after the message: the one event of a session
\* whose answers are not looked at.
SessionIdle ==
    /\ Emits
    /\ \E event \in {e \in EventInputs : e.type = "session.idle"} :
           /\ workers' = emit(workers, event)
           /\ log' = emit_log(log, workers, 1, event)
    /\ UNCHANGED <<storeVars, processing, messages, session, enqueued,
                   handed, sent, handlers, concVars, appVars>>

\* session.send() returns: done.wait() is awaited with the timeout.
SendReturns ==
    \E i \in 1..Len(workers) :
        /\ Resumes(i, {"process_queue"}, "send")
        /\ workers' = [workers EXCEPT ![i].pc = "wait"]
        /\ UNCHANGED <<storeVars, processing, messages, session, enqueued,
                       handed, sent, log, handlers, concVars, appVars>>

\* session.send() raises: unsubscribe, the error is logged, the loop goes on.
SendFails ==
    \E i \in 1..Len(workers) :
        /\ Resumes(i, {"process_queue"}, "send")
        /\ LoopHead(i, processing,
                    Write(log, workers[i].call, <<ExceptionLine>>),
                    handlers \ {workers[i].call})

\* session.idle or session.error has set `done`: the wait returns, the
\* handler is unsubscribed, the response is written and the loop goes on.
ResponseDone ==
    \E i \in 1..Len(workers) :
        /\ Resumes(i, {"process_queue"}, "wait")
        /\ workers[i].done
        /\ LoopHead(i, processing,
                    Write(log, workers[i].call,
                          response_lines(workers[i], FALSE)),
                    handlers \ {workers[i].call})

\* The timeout passes and the message is sent to the session once more.
ResponseTimeout_Retry ==
    \E i \in 1..Len(workers) :
        /\ Resumes(i, {"process_queue"}, "wait")
        /\ ~workers[i].done
        /\ workers' = [workers EXCEPT ![i].pc = "send"]
        /\ sent' = Append(sent, workers[i].message)
        /\ log' = Write(log, workers[i].call, <<TimedOutLine>>)
        /\ UNCHANGED <<storeVars, processing, messages, session, enqueued,
                       handed, handlers, concVars, appVars>>

\* asyncio.TimeoutError after 120 s without `done`: the warning is written,
\* the handler is unsubscribed, what was received is written and the loop
\* goes on.
ResponseTimeout ==
    \E i \in 1..Len(workers) :
        /\ Resumes(i, {"process_queue"}, "wait")
        /\ ~workers[i].done
        /\ LoopHead(i, processing,
                    Write(log, workers[i].call,
                          response_lines(workers[i], TRUE)),
                    handlers \ {workers[i].call})

\* A cancelled worker's next step raises CancelledError at its await; one
\* that never started runs nothing.  `except Exception` does not catch it;
\* the `finally` of _async_send unsubscribes the handler and the drain
\* loop's `finally` clears the flag.
WorkerCancelled ==
    \E i \in 1..Len(workers) :
        /\ workers[i].cancelled
        /\ workers' = Remove(workers, i)
        /\ processing' =
             IF workers[i].kind = "process_queue" /\ workers[i].pc # "start"
             THEN FALSE ELSE processing
        /\ handlers' =
             IF workers[i].kind = "process_queue"
                /\ workers[i].pc \in {"send", "wait"}
             THEN handlers \ {workers[i].call} ELSE handlers
        /\ UNCHANGED <<storeVars, messages, session, enqueued, handed, sent,
                       log, concVars, appVars>>

ChatNext ==
    \/ SendMessage
    \/ PressNewSession
    \/ PressRecreateSession
    \/ StartProcessQueue
    \/ StartSessionWorker
    \/ DestroyReturns
    \/ SessionCreated
    \/ SessionCreateFails
    \/ SessionWorkerFails
    \/ SessionIdle
    \/ SendReturns
    \/ SendFails
    \/ ResponseDone
    \/ ResponseTimeout
    \/ WorkerCancelled

SpecChat == Init /\ [][ChatNext]_vars

\* One drain loop and the events of its session, with no session button.
SendNext ==
    \/ SendMessage
    \/ StartProcessQueue
    \/ SessionCreated
    \/ SessionCreateFails
    \/ SessionEvent
    \/ SendReturns
    \/ SendFails
    \/ ResponseDone
    \/ ResponseTimeout
    \/ WorkerCancelled

SpecSend == Init /\ [][SendNext]_vars

\* -------------------------------------------------------- AgentTaskRunner
\* The tasks handed to execute: with or without an agent and a checklist.
RunnerTasks ==
    [id : {"t1"}, name : TaskNames, description : Descriptions,
     agent : {None} \cup OptionalInputs, status : {"ready"},
     checklist : Checklists]

\* A line of the prompt: its markup and the text after it.
PromptLine(markup, text) == [markup |-> markup, text |-> text]

\* The checklist lines of the prompt, "- [x] ..." or "- [ ] ...".
checklist_lines(checklist) ==
    [i \in 1..Len(checklist) |->
        PromptLine(IF checklist[i].completed THEN "- [x]" ELSE "- [ ]",
                   checklist[i].description)]

\* task_message: the heading, name and description, then the checklist
\* under its title when the task has one.
task_message(t) ==
    <<PromptLine("You are an autonomous agent", ""),
      PromptLine("**Name**:", t.name),
      PromptLine("**Description**:", t.description)>>
    \o (IF t.checklist # <<>>
        THEN <<PromptLine("**Checklist**:", "")>> \o checklist_lines(t.checklist)
        ELSE <<>>)

\* The event types of a session that on_event is called with.
RunnerEventTypes == {"session.idle", "session.error", "assistant.message"}

\* on_event: session.idle alone sets finish_event.
on_event(r, type) ==
    [r EXCEPT !.finish_event = @ \/ type = "session.idle",
              !.events = @ + 1]

\* execute(task) up to its first await: the prompt is built, then
\* _create_copilot_session raises NotImplementedError for a task without
\* an agent, else awaits create_session.
Execute ==
    /\ runner.pc = "idle"
    /\ \E t \in RunnerTasks :
           runner' = [runner EXCEPT
                        !.prompt = task_message(t),
                        !.pc = IF t.agent = None THEN "raised" ELSE "create"]
    /\ UNCHANGED <<storeVars, chatVars, concVars, form>>

\* create_session returns: on_event is subscribed, session.send is awaited.
RunnerSessionCreated ==
    /\ runner.pc = "create"
    /\ runner' = [runner EXCEPT !.pc = "send", !.session = "open"]
    /\ UNCHANGED <<storeVars, chatVars, concVars, form>>

\* create_session raises: execute raises, no session was made.
RunnerSessionFails ==
    /\ runner.pc = "create"
    /\ runner' = [runner EXCEPT !.pc = "raised"]
    /\ UNCHANGED <<storeVars, chatVars, concVars, form>>

\* The session emits an event while execute awaits: on_event is called.
RunnerEvent ==
    /\ runner.pc \in {"send", "wait"}
    /\ runner.events < MaxEvents
    /\ \E type \in RunnerEventTypes : runner' = on_event(runner, type)
    /\ UNCHANGED <<storeVars, chatVars, concVars, form>>

\* session.send returns: finish_event.wait() is awaited, with no timeout.
RunnerSendReturns ==
    /\ runner.pc = "send"
    /\ runner' = [runner EXCEPT !.pc = "wait"]
    /\ UNCHANGED <<storeVars, chatVars, concVars, form>>

\* session.send raises: execute raises, the session is left as it is.
RunnerSendFails ==
    /\ runner.pc = "send"
    /\ runner' = [runner EXCEPT !.pc = "raised"]
    /\ UNCHANGED <<storeVars, chatVars, concVars, form>>

\* finish_event is set: the wait returns and session.destroy() is awaited.
RunnerWaitReturns ==
    /\ runner.pc = "wait"
    /\ runner.finish_event
    /\ runner' = [runner EXCEPT !.pc = "destroy"]
    /\ UNCHANGED <<storeVars, chatVars, concVars, form>>

\* session.destroy() returns: execute returns.
RunnerDestroyReturns ==
    /\ runner.pc = "destroy"
    /\ runner' = [runner EXCEPT !.pc = "returned", !.session = "destroyed"]
    /\ UNCHANGED <<storeVars, chatVars, concVars, form>>

RunnerNext ==
    \/ Execute
    \/ RunnerSessionCreated
    \/ RunnerSessionFails
    \/ RunnerEvent
    \/ RunnerSendReturns
    \/ RunnerSendFails
    \/ RunnerWaitReturns
    \/ RunnerDestroyReturns

\* The steps of execute itself: an await of it returns or raises.
RunnerSteps ==
    \/ Execute
    \/ RunnerSessionCreated
    \/ RunnerSessionFails
    \/ RunnerSendReturns
    \/ RunnerSendFails
    \/ RunnerWaitReturns
    \/ RunnerDestroyReturns

\* An await of execute that can return does so in finite time; the session
\* emits events or not as it likes.
SpecRunner == Init /\ [][RunnerNext]_vars /\ WF_vars(RunnerSteps)

\* -------------------------------------------------------- StoryFormScreen
STORY_STATUSES == <<"created", "planning", "ready", "in_progress", "completed">>

\* The stories the form is opened with for editing; their texts are texts
\* of the input widgets.
FormStories ==
    [id : {"s1"}, name : {"a"}, description : {"a"},
     status : {"pending", "completed"}]

\* The form for editing a story: the widgets start with its values.
EditStoryForm(s) ==
    [screen |-> "form", editing |-> TRUE, story |-> s,
     name |-> s.name, description |-> s.description, status |-> s.status]

\* notify(...) of _save_story and what becomes of the screen.
Notified(screen, text) == [outcome |-> "ok", screen |-> screen, notify |-> text]

\* _save_story checking the name alone.
save_story_form_NameOnly(f) ==
    LET name == strip[f.name]
        description == strip[f.description]
    IN IF name = "" THEN Notified("form", "Name is required")
       ELSE IF ~f.editing /\ f.status \notin Range(StoryStatus)
       THEN [outcome |-> "ValidationError", screen |-> "form", notify |-> ""]
       ELSE Notified("closed", "saved")

\* _save_story: an empty name or description is notified and the method
\* returns; a new story is validated by Story(...), an edited one is a
\* model_copy; then put_story is called, the save is notified and the
\* screen is popped.
save_story_form(f) ==
    LET name == strip[f.name]
        description == strip[f.description]
    IN IF name = "" THEN Notified("form", "Name is required")
       ELSE IF description = "" THEN Notified("form", "Description is required")
       ELSE IF ~f.editing /\ f.status \notin Range(StoryStatus)
       THEN [outcome |-> "ValidationError", screen |-> "form", notify |-> ""]
       ELSE Notified("closed", "saved")

\* The screen is pushed for a new story or for one to edit.
OpenStoryForm ==
    /\ form.screen = "closed"
    /\ form' \in {NewStoryForm} \cup {EditStoryForm(s) : s \in FormStories}
    /\ ret' = NoCall
    /\ UNCHANGED <<story, task, lhs, rhs, chatVars, concVars, runner>>

\* The user edits the name, the description or the status.
EditField ==
    /\ form.screen = "form"
    /\ \/ \E text \in InputValues : form' = [form EXCEPT !.name = text]
       \/ \E text \in InputValues : form' = [form EXCEPT !.description = text]
       \/ \E s \in Range(STORY_STATUSES) : form' = [form EXCEPT !.status = s]
    /\ ret' = NoCall
    /\ UNCHANGED <<story, task, lhs, rhs, chatVars, concVars, runner>>

\* Save is pressed: _save_story.  put_story is a coroutine function of the
\* store and the call is not awaited: its body never runs and no row is
\* written.
PressSave ==
    /\ form.screen = "form"
    /\ LET r == save_story_form(form) IN
       /\ form' = [form EXCEPT !.screen = r.screen]
       /\ ret' = Call("_save_story",
                      [name |-> form.name, description |-> form.description],
                      r)
    /\ UNCHANGED <<story, task, lhs, rhs, chatVars, concVars, runner>>

\* Cancel is pressed, or escape: the screen is popped.
PressCancel ==
    /\ form.screen = "form"
    /\ form' = [form EXCEPT !.screen = "closed"]
    /\ ret' = NoCall
    /\ UNCHANGED <<story, task, lhs, rhs, chatVars, concVars, runner>>

FormNext == \/ OpenStoryForm \/ EditField \/ PressSave \/ PressCancel

SpecForm == Init /\ [][FormNext]_vars

\* ------------------------------------------- concurrent store operations
\* Callers run update_story / update_task concurrently on one backend.  A
\* call is suspended at each await of the store; `callers` holds, per
\* caller, the await it is suspended at and its local variables.

\* The ids and the payloads of the concurrent updates.
ConcStoryIds == {"s1"}

ConcTaskIds == {"t1"}

ConcStoryData ==
    {d \in DictsOver({"name"}, StoryVals) \cup DictsOver({"status"}, StoryVals) :
        /\ "name" \in DOMAIN d => d["name"] = "b"
        /\ "status" \in DOMAIN d => d["status"] = "completed"}

ConcTaskData ==
    {d \in DictsOver({"story_id"}, TaskVals)
           \cup DictsOver({"status"}, TaskVals) :
        /\ "story_id" \in DOMAIN d => d["story_id"] = "s1"
        /\ "status" \in DOMAIN d => d["status"] = "completed"}

\* The database file when the backend is constructed: a new file without
\* tables, or the file of an earlier run with a story and a task.
InitConc ==
    /\ schema \in BOOLEAN
    /\ story = IF schema
               THEN <<[id |-> "s1", name |-> "a", description |-> "d",
                       status |-> "pending"]>>
               ELSE <<>>
    /\ task = IF schema
              THEN <<[id |-> "t1", name |-> "a", status |-> "pending",
                      description |-> "d", checklist |-> json_dumps(<<>>),
                      story_id |-> None]>>
              ELSE <<>>
    /\ AppInit
    /\ ret = NoCall
    /\ lhs = None
    /\ rhs = None
    /\ ChatInit
    /\ BackendInit

\* _get_conn up to its first await: with no connection yet the caller waits
\* for aiosqlite.connect(), else the connection is returned at once and the
\* caller goes on to the statement it needs.
get_conn(rec, then) ==
    IF conn = NoConn THEN [rec EXCEPT !.pc = "connect"]
    ELSE [rec EXCEPT !.pc = then]

\* update_story(story_id, data) starts: get_story awaits _get_conn().
BeginUpdateStory ==
    \E c \in Callers : \E id \in ConcStoryIds : \E data \in ConcStoryData :
        /\ callers[c].pc = "idle"
        /\ callers' = [callers EXCEPT ![c] =
             get_conn([pc |-> "idle", op |-> "update_story", id |-> id,
                       data |-> data], "select")]
        /\ UNCHANGED <<storeVars, chatVars, appVars, conn, opened, schema>>

\* update_task(task_id, data) starts: get_task awaits _get_conn().
BeginUpdateTask ==
    \E c \in Callers : \E id \in ConcTaskIds : \E data \in ConcTaskData :
        /\ callers[c].pc = "idle"
        /\ callers' = [callers EXCEPT ![c] =
             get_conn([pc |-> "idle", op |-> "update_task", id |-> id,
                       data |-> data], "select")]
        /\ UNCHANGED <<storeVars, chatVars, appVars, conn, opened, schema>>

\* aiosqlite.connect() returns: the connection is stored in self._conn and
\* _create_tables() is awaited (its own _get_conn() returns at once).
Connected ==
    \E c \in Callers :
        /\ callers[c].pc = "connect"
        /\ opened' = opened + 1
        /\ conn' = opened + 1
        /\ callers' = [callers EXCEPT ![c].pc = "create_tables"]
        /\ UNCHANGED <<storeVars, chatVars, appVars, schema>>

\* The two CREATE TABLE IF NOT EXISTS scripts have run: _get_conn returns
\* and the SELECT is awaited.
TablesCreated ==
    \E c \in Callers :
        /\ callers[c].pc = "create_tables"
        /\ schema' = TRUE
        /\ callers' = [callers EXCEPT ![c].pc = "select"]
        /\ UNCHANGED <<storeVars, chatVars, appVars, conn, opened>>

\* What a caller has read of its row: get_story / get_task on the table.
ReadRow(rec) ==
    IF ~schema THEN Raise("OperationalError")
    ELSE IF rec.op = "update_story" THEN get_story(story, rec.id)
    ELSE get_task(task, rec.id)

\* The SELECT returns: an error ends the call; else
\* updated = existing.model_copy(update=data) and put awaits the INSERT
\* (its _get_conn() returns at once).
Selected ==
    \E c \in Callers :
        LET rec == callers[c]
            existing == ReadRow(rec)
        IN /\ rec.pc = "select"
           /\ callers' = [callers EXCEPT ![c] =
                IF existing.outcome # "ok"
                THEN [pc |-> "done", op |-> rec.op, id |-> rec.id,
                      data |-> rec.data, result |-> existing]
                ELSE [pc |-> "upsert", op |-> rec.op, id |-> rec.id,
                      data |-> rec.data, existing |-> existing.value]]
           /\ UNCHANGED <<storeVars, chatVars, appVars, conn, opened, schema>>

\* The stored row converted back to the entity.
CurrentEntity(rec) == ReadRow(rec).value

\* update merging the payload into the row as it is when the write is made.
UpdatedEntity_OnCurrentRow(rec, current) == model_copy(current, rec.data)

\* updated = existing.model_copy(update=data), with the entity read before
\* the await.
UpdatedEntity(rec, current) == model_copy(rec.existing, rec.data)

\* The INSERT ... ON CONFLICT and the commit have run: the call returns
\* `updated`.
Upserted ==
    \E c \in Callers :
        LET rec == callers[c]
            updated == UpdatedEntity(rec, CurrentEntity(rec))
        IN /\ rec.pc = "upsert"
           /\ IF rec.op = "update_story"
              THEN story' = put_story(story, updated) /\ UNCHANGED task
              ELSE task' = put_task(task, updated) /\ UNCHANGED story
           /\ callers' = [callers EXCEPT ![c] =
                [pc |-> "done", op |-> rec.op, id |-> rec.id,
                 data |-> rec.data, result |-> Ok(updated)]]
           /\ UNCHANGED <<ret, lhs, rhs, chatVars, appVars, conn, opened, schema>>

\* The caller takes the result of its call.
CallReturns ==
    \E c \in Callers :
        /\ callers[c].pc = "done"
        /\ callers' = [callers EXCEPT ![c] = NoOp]
        /\ UNCHANGED <<storeVars, chatVars, appVars, conn, opened, schema>>

ConcNext ==
    \/ BeginUpdateStory
    \/ BeginUpdateTask
    \/ Connected
    \/ TablesCreated
    \/ Selected
    \/ Upserted
    \/ CallReturns

SpecConc == InitConc /\ [][ConcNext]_vars

\* ------------------------------------------------------------- properties
\* The ids of the entities of a list, and of the rows of a table that
\* satisfy a condition.
IdsOf(seq) == {seq[i].id : i \in 1..Len(seq)}

\* The call returned a list holding exactly the entities with these ids,
\* each once.
ReturnsExactly(ids) ==
    /\ ret.result.outcome = "ok"
    /\ IdsOf(ret.result.items) = ids
    /\ Len(ret.result.items) = Cardinality(ids)

Rows(tbl) == {tbl[i] : i \in 1..Len(tbl)}

UpdatableTaskFields ==
    {"name", "description", "status", "story_id", "agent", "repository_name",
     "branch_name"}

ValidStatus(data) ==
    "status" \in DOMAIN data => data["status"] \in Range(TaskStatus)

Overlaid(e, d) == [f \in DOMAIN e |-> IF f \in DOMAIN d THEN d[f] ELSE e[f]]

\* C1: update_task(e.id, d) with a payload d over the updatable fields
\* returns e with d's fields overlaid, and get_task(e.id) then returns that
\* same merged entity.
C1_Step ==
    (/\ ret'.op = "update_task"
     /\ ret'.result.outcome = "ok"
     /\ DOMAIN ret'.args.data \subseteq UpdatableTaskFields
     /\ ValidStatus(ret'.args.data))
    => /\ ret'.result.value = Overlaid(get_task(task, ret'.args.id).value,
                                ret'.args.data)
       /\ get_task(task', ret'.args.id) = Ok(ret'.result.value)

C1_UpdateTaskMergesAndRoundTrips == [][C1_Step]_vars

\* C2: after create_task(data), get_task(id) returns a task whose value in
\* every supplied field is the supplied value.
C2_CreateTaskRoundTrips ==
    (ret.op = "create_task" /\ ret.result.outcome = "ok")
    => LET got == get_task(task, ret.result.value.id) IN
       /\ got.outcome = "ok"
       /\ \A f \in DOMAIN ret.args.data : got.value[f] = ret.args.data[f]

\* C3: list_tasks(story_id=X) returns exactly the stored tasks whose
\* story_id is X, and list_tasks() returns every stored task.
C3_ListTasksByStory ==
    (ret.op = "list_tasks" /\ ret.args.status = None)
    => LET X == ret.args.story_id
       IN IF X = None THEN ReturnsExactly(IdsOf(task))
          ELSE ReturnsExactly({r.id : r \in {q \in Rows(task) : q.story_id = X}})

\* C4: list_unassigned_tasks() returns exactly the stored tasks whose
\* story_id is null.
C4_ListUnassignedTasks ==
    ret.op = "list_unassigned_tasks"
    => ReturnsExactly({r.id : r \in {q \in Rows(task) : q.story_id = None}})

\* C5: list_stories(status=S) returns exactly the stored stories whose
\* status is S, and list_stories() returns every stored story.
C5_ListStoriesByStatus ==
    ret.op = "list_stories"
    => LET S == ret.args.status
       IN IF S = None THEN ReturnsExactly(IdsOf(story))
          ELSE ReturnsExactly({r.id : r \in {q \in Rows(story) : q.status = S}})

\* C6: list_tasks called with both a status and a story_id returns exactly
\* the stored tasks that match both.
C6_ListTasksBothFilters ==
    (/\ ret.op = "list_tasks"
     /\ ret.args.status # None
     /\ ret.args.story_id # None)
    => ReturnsExactly({r.id : r \in {q \in Rows(task) :
                                        /\ q.status = ret.args.status
                                        /\ q.story_id = ret.args.story_id}})

\* Position of a status in the enumeration.
Position(status) == CHOOSE i \in 1..Len(StoryStatus) : StoryStatus[i] = status

IsLt == ret.op \in {"Story.__lt__", "Task.__lt__"}

\* C7: a < b exactly when a's status comes earlier in the enumeration than
\* b's, or the statuses are equal and a's name is smaller than b's.
C7_OrderByStatusThenName ==
    IsLt => ret.result.truth = (\/ Position(lhs.status) < Position(rhs.status)
                         \/ /\ lhs.status = rhs.status
                            /\ StrLt(lhs.name, rhs.name))

\* The earlier status wins although its name is the greater one.
C7_Witness ==
    /\ IsLt
    /\ ret.result.truth
    /\ lhs.status # rhs.status
    /\ StrLt(rhs.name, lhs.name)

\* C8: get_story / get_task on an id no row has raises the NotFound error
\* and leaves both tables as they were.
C8_Step ==
    /\ (ret'.op = "get_story" /\ RowIndex(story, ret'.args.id) = NoRow)
       => (ret'.result.outcome = "StoryNotFoundError" /\ UNCHANGED <<story, task>>)
    /\ (ret'.op = "get_task" /\ RowIndex(task, ret'.args.id) = NoRow)
       => (ret'.result.outcome = "TaskNotFoundError" /\ UNCHANGED <<story, task>>)

C8_GetMissingRaisesNotFound == [][C8_Step]_vars

\* A get missed while the other id of the table is stored.
C8_Witness ==
    /\ ret.op = "get_task"
    /\ ret.result.outcome = "TaskNotFoundError"
    /\ task # <<>>

\* C9: update_story / update_task on an id no row has raises NotFound and
\* writes nothing.
C9_Step ==
    /\ (ret'.op = "update_story" /\ RowIndex(story, ret'.args.id) = NoRow)
       => (ret'.result.outcome = "StoryNotFoundError" /\ UNCHANGED <<story, task>>)
    /\ (ret'.op = "update_task" /\ RowIndex(task, ret'.args.id) = NoRow)
       => (ret'.result.outcome = "TaskNotFoundError" /\ UNCHANGED <<story, task>>)

C9_UpdateMissingWritesNothing == [][C9_Step]_vars

\* An update with a non-empty payload missed while another story is stored.
C9_Witness ==
    /\ ret.op = "update_story"
    /\ ret.result.outcome = "StoryNotFoundError"
    /\ DOMAIN ret.args.data # {}
    /\ story # <<>>

MissesRequired(data) == ~({"name", "description"} \subseteq DOMAIN data)

\* C10: create_story / create_task without name or description raises a
\* validation error and writes nothing.
C10_Step ==
    (/\ ret'.op \in {"create_story", "create_task"}
     /\ MissesRequired(ret'.args.data))
    => (ret'.result.outcome = "ValidationError" /\ UNCHANGED <<story, task>>)

C10_CreateInvalidWritesNothing == [][C10_Step]_vars

\* A create without a name failed while a task is stored.
C10_Witness ==
    /\ ret.op = "create_task"
    /\ "name" \notin DOMAIN ret.args.data
    /\ ret.result.outcome = "ValidationError"
    /\ task # <<>>

\* C11: enqueue_message(msg) appends msg at the tail of the queue and
\* returns true exactly when, just before the append, the processing flag
\* was set or the queue was non-empty.
C11_Step ==
    enqueued' # enqueued
    => /\ ret'.op = "enqueue_message"
       /\ messages' = Append(messages, ret'.args.message)
       /\ ret'.result.truth = (processing \/ messages # <<>>)

C11_EnqueueReportsPending == [][C11_Step]_vars

\* A second message was enqueued before any drain loop started: the answer
\* is true with the flag still cleared.
C11_Witness ==
    /\ ret.op = "enqueue_message"
    /\ ret.result.truth
    /\ handed = <<>>
    /\ ~processing
    /\ Len(messages) = 2

IsPrefix(a, b) == Len(a) <= Len(b) /\ SubSeq(b, 1, Len(a)) = a

\* a is b with some elements left out, the others in b's order.
RECURSIVE IsSubseq(_, _)
IsSubseq(a, b) ==
    IF a = <<>> THEN TRUE
    ELSE IF b = <<>> THEN FALSE
    ELSE IF Head(a) = Head(b) THEN IsSubseq(Tail(a), Tail(b))
    ELSE IsSubseq(a, Tail(b))

\* C12: chat messages are processed strictly in enqueue order: the messages
\* handed to _async_send followed by the queue are the enqueue sequence, no
\* message reaches session.send twice or out of order, and next_message
\* returns None exactly when the queue is empty.
C12_FifoOrder ==
    /\ enqueued = handed \o messages
    /\ IsPrefix(handed, enqueued)
    /\ IsSubseq(sent, handed)
    /\ ret.op = "next_message"
       => (ret.result.value = None <=> ret.args.queue = <<>>)

\* A third message was enqueued while the drain loop waits for the answer
\* to the second one.
C12_Witness ==
    /\ handed = <<"a", "b">>
    /\ sent = <<"a", "b">>
    /\ messages = <<"a">>
    /\ \E i \in 1..Len(workers) :
           /\ workers[i].kind = "process_queue"
           /\ workers[i].pc = "wait"
           /\ ~workers[i].cancelled

\* The drain loops that have started and not ended.
RunningLoops(ws) ==
    {i \in 1..Len(ws) : ws[i].kind = "process_queue" /\ ws[i].pc # "start"}

C13_Inv ==
    /\ Cardinality(RunningLoops(workers)) <= 1
    /\ processing <=> RunningLoops(workers) # {}

\* A drain loop ends with the flag cleared; one that was not cancelled ends
\* only on a None from next_message, with the queue empty.
C13_Step ==
    (RunningLoops(workers) # {} /\ RunningLoops(workers') = {})
    => /\ ~processing'
       /\ (\A i \in RunningLoops(workers) : ~workers[i].cancelled)
          => /\ ret'.op = "next_message"
             /\ ret'.result.value = None
             /\ messages' = <<>>

\* C13: at most one execution of the drain loop runs at a time, the flag is
\* set exactly while one runs, and a drain loop that is not cancelled keeps
\* dequeuing until next_message returns None.
C13_OneConsumer == []C13_Inv /\ [][C13_Step]_vars

\* Two submissions before the first drain loop started: the first loop is
\* cancelled unstarted while the second one runs.
C13_Witness ==
    /\ Len(workers) = 2
    /\ workers[1].kind = "process_queue"
    /\ workers[1].pc = "start"
    /\ workers[1].cancelled
    /\ RunningLoops(workers) = {2}
    /\ processing

\* The entity stored under an id, read back from the given tables.
StoredEntity(op, id, stories, tasks) ==
    IF op = "update_story" THEN get_story(stories, id).value
    ELSE get_task(tasks, id).value

\* Caller c writes in this step.
Writes(c) == callers[c].pc = "upsert" /\ callers'[c].pc = "done"

\* Caller o has written, on the row c is about to write, a payload that
\* shares no key with c's and that c did not see when it read.
Unseen(c, o) ==
    /\ o # c
    /\ callers[o].pc = "done"
    /\ callers[o].result.outcome = "ok"
    /\ callers[o].op = callers[c].op
    /\ callers[o].id = callers[c].id
    /\ DOMAIN callers[o].data # {}
    /\ DOMAIN callers[o].data \cap DOMAIN callers[c].data = {}
    /\ \A f \in DOMAIN callers[o].data :
           /\ callers[c].existing[f] # callers[o].data[f]
           /\ StoredEntity(callers[c].op, callers[c].id, story, task)[f]
                = callers[o].data[f]

\* C14: update-by-merge is a read-then-write without compare-and-swap: a
\* call that read the entity before another call's write stores its own
\* merge of what it read, so the other call's fields go back to the values
\* read, and the call reports no error.
C14_Step ==
    \A c \in Callers : \A o \in Callers :
        (Writes(c) /\ Unseen(c, o))
        => /\ callers'[c].result.outcome = "ok"
           /\ \A f \in DOMAIN callers[o].data :
                  StoredEntity(callers[c].op, callers[c].id, story', task')[f]
                    = callers[c].existing[f]

C14_UpdateRaceLosesFields == [][C14_Step]_vars

\* Two updates of one id with disjoint payloads have both returned without
\* error, each having read before the other wrote; the stored entity has
\* the fields of the second payload only.
C14_Witness ==
    \E c \in Callers : \E o \in Callers :
        /\ o # c
        /\ callers[c].pc = "done" /\ callers[o].pc = "done"
        /\ callers[c].result.outcome = "ok"
        /\ callers[o].result.outcome = "ok"
        /\ callers[c].op = callers[o].op /\ callers[c].id = callers[o].id
        /\ DOMAIN callers[c].data # {} /\ DOMAIN callers[o].data # {}
        /\ DOMAIN callers[c].data \cap DOMAIN callers[o].data = {}
        /\ \A f \in DOMAIN callers[c].data :
               /\ callers[o].result.value[f] # callers[c].data[f]
               /\ StoredEntity(callers[c].op, callers[c].id, story, task)[f]
                    = callers[c].data[f]
        /\ \A f \in DOMAIN callers[o].data :
               /\ callers[c].result.value[f] # callers[o].data[f]
               /\ StoredEntity(callers[c].op, callers[c].id, story, task)[f]
                    # callers[o].data[f]

\* C15: the backend opens exactly one connection over its lifetime,
\* whatever the interleaving of the store operations.
C15_SingleConnection == opened <= 1

IsListNonCompleted == ret.op = "list_non_completed_stories"

\* C16 as stated: list_non_completed_stories() returns the per-status lists
\* in the enumeration's order, pending stories first, then planning, ready
\* and in_progress.
C16_EnumerationOrder ==
    IsListNonCompleted
    => /\ ret.result.outcome = "ok"
       /\ \A i \in 1..Len(ret.result.items) :
          \A j \in 1..Len(ret.result.items) :
              i < j => Position(ret.result.items[i].status)
                         <= Position(ret.result.items[j].status)

\* C16 amended: list_non_completed_stories() returns the per-status lists
\* in the order in_progress, ready, planning, pending; the stories of one
\* status keep the store's order.
C16_SearchOrder ==
    IsListNonCompleted
    => /\ ret.result.outcome = "ok"
       /\ \A i \in 1..Len(ret.result.items) :
          \A j \in 1..Len(ret.result.items) :
              i < j =>
                LET a == ret.result.items[i]
                    b == ret.result.items[j]
                IN /\ Position(a.status) >= Position(b.status)
                   /\ a.status = b.status
                      => RowIndex(story, a.id) < RowIndex(story, b.id)

\* A pending story stored before an in_progress one is listed after it.
C16_Witness ==
    /\ IsListNonCompleted
    /\ Len(story) = 2
    /\ story[1].status = "pending"
    /\ story[2].status = "in_progress"
    /\ Len(ret.result.items) = 2
    /\ ret.result.items[1].id = story[2].id
    /\ ret.result.items[2].id = story[1].id

\* C17: list_non_completed_stories() holds every stored story whose status
\* is not completed exactly once, and no completed story.
C17_NonCompletedExactlyOnce ==
    IsListNonCompleted
    => ReturnsExactly({r.id : r \in {q \in Rows(story) :
                                        q.status # "completed"}})

\* The rows of the task table with a status, in the table's order.
TasksWithStatus(status) ==
    LET Match(row) == row.status = status IN SelectSeq(task, Match)

\* C18: get_next_task(status) returns None exactly when no stored task has
\* the status; otherwise it returns the first stored task with the status,
\* in the store's order.
C18_GetNextTask ==
    ret.op = "get_next_task"
    => LET matching == TasksWithStatus(ret.args.status) IN
       /\ ret.result.outcome = "ok"
       /\ "null" \in DOMAIN ret.result <=> matching = <<>>
       /\ "value" \in DOMAIN ret.result
          => /\ ret.result.value.id = matching[1].id
             /\ ret.result.value.status = ret.args.status

\* Two stored tasks have the status asked for; the one stored first is
\* returned.
C18_Witness ==
    /\ ret.op = "get_next_task"
    /\ Len(task) = 2
    /\ task[1].status = ret.args.status
    /\ task[2].status = ret.args.status
    /\ "value" \in DOMAIN ret.result
    /\ ret.result.value.id = task[1].id

UniqueIds(tbl) ==
    \A i \in 1..Len(tbl) : \A j \in 1..Len(tbl) :
        tbl[i].id = tbl[j].id => i = j

C19_Inv == UniqueIds(story) /\ UniqueIds(task)

C19_Step ==
    /\ ret'.op = "save_story"
       => /\ ret'.result.outcome = "ok"
          /\ RowIndex(story, ret'.args.story.id) # NoRow
             => Len(story') = Len(story)
          /\ get_story(story', ret'.args.story.id) = Ok(ret'.args.story)
    /\ ret'.op = "save_task"
       => /\ ret'.result.outcome = "ok"
          /\ RowIndex(task, ret'.args.task.id) # NoRow
             => Len(task') = Len(task)
          /\ get_task(task', ret'.args.task.id) = Ok(ret'.args.task)

\* C19: the puts are upserts keyed by id: the store never holds two
\* entities with one id, a put on a stored id raises no error and leaves
\* the number of stored entities as it was, and get(id) returns the entity
\* of the latest put for the id.
C19_PutIsUpsert == []C19_Inv /\ [][C19_Step]_vars

IsToolUpdate == ret.op \in {"tool_update_story", "tool_update_task"}

\* C20: the update tools take the id out of the arguments: the payload
\* handed to the service has no key id, and the entity returned and stored
\* has the id passed to the tool.
C20_ToolUpdatePopsId ==
    IsToolUpdate
    => /\ "id" \notin DOMAIN ret.args.data
       /\ ret.result.outcome = "ok"
          => LET id == ret.args.args["id"]
                 tbl == IF ret.op = "tool_update_story" THEN story ELSE task
             IN /\ ret.result.value.id = id
                /\ RowIndex(tbl, id) # NoRow
                /\ \A f \in {"id", "name", "description", "status"} :
                       tbl[RowIndex(tbl, id)][f] = ret.result.value[f]

\* The update_task tool changed the story_id of a stored task.
C20_Witness ==
    /\ ret.op = "tool_update_task"
    /\ ret.result.outcome = "ok"
    /\ DOMAIN ret.args.args = {"id", "story_id"}
    /\ DOMAIN ret.args.data = {"story_id"}
    /\ ret.result.value.story_id = "s1"
    /\ task[RowIndex(task, ret.args.args["id"])].story_id = "s1"

\* C21: every stored Story and Task has a status of the enumeration; an
\* update whose payload carries another status does not persist it.
C21_StoredStatusInEnum ==
    /\ \A r \in Rows(story) : r.status \in Range(StoryStatus)
    /\ \A r \in Rows(task) : r.status \in Range(TaskStatus)

\* C28: `<`, `==` and `>` of Story and Task form a consistent total order:
\* for any two entities exactly one of a < b, a == b, a > b holds, and
\* a > b holds exactly when b < a does.
C28_ConsistentTotalOrder ==
    ret.op = "compare"
    => LET r == ret.result IN
       /\ r.lt \/ r.eq \/ r.gt
       /\ ~(r.lt /\ r.eq) /\ ~(r.lt /\ r.gt) /\ ~(r.eq /\ r.gt)
       /\ r.gt <=> r.swapped_lt

\* C25: merge update is idempotent: after update(e.id, d) on a stored e,
\* the same update once more leaves the store as it is and returns the same
\* entity.
C25_Step ==
    /\ (ret'.op = "update_story" /\ ret'.result.outcome = "ok")
       => LET again == update_story(story', ret'.args.id, ret'.args.data)
          IN again.table = story' /\ again.result = ret'.result
    /\ (ret'.op = "update_task" /\ ret'.result.outcome = "ok")
       => LET again == update_task(task', ret'.args.id, ret'.args.data)
          IN again.table = task' /\ again.result = ret'.result

C25_UpdateIdempotent == [][C25_Step]_vars

\* The rows of a table other than the one with the given id are, in the
\* second table, where and as they were, and no id is added or removed.
OnlyWrittenAt(id, before, after) ==
    /\ IdsOf(after) = IdsOf(before)
    /\ Len(after) = Len(before)
    /\ \A i \in 1..Len(before) : before[i].id # id => after[i] = before[i]

\* C29: a successful update_story(id, data) / update_task(id, data) leaves
\* the set of stored ids as it was and changes no entity but the one with
\* the given id.
C29_Step ==
    /\ (ret'.op = "update_story" /\ ret'.result.outcome = "ok")
       => OnlyWrittenAt(ret'.args.id, story, story') /\ task' = task
    /\ (ret'.op = "update_task" /\ ret'.result.outcome = "ok")
       => OnlyWrittenAt(ret'.args.id, task, task') /\ story' = story

C29_UpdateWritesOnlyAtId == [][C29_Step]_vars

\* C26: a task's checklist survives persistence: after put_task of a task
\* with n checklist items, get_task of its id returns n items in the same
\* order, each with the same description and completed flag; an empty
\* checklist is read back empty.
C26_ChecklistRoundTrip ==
    /\ ret.op = "put_task"
       => LET t == ret.args.task
              r == get_task(task, t.id)
          IN /\ r.outcome = "ok"
             /\ Len(r.value.checklist) = Len(t.checklist)
             /\ \A i \in 1..Len(t.checklist) :
                    /\ r.value.checklist[i].description = t.checklist[i].description
                    /\ r.value.checklist[i].completed = t.checklist[i].completed
    /\ (ret.op = "get_task" /\ ret.result.outcome = "ok")
       => json_dumps(ret.result.value.checklist)
          = task[RowIndex(task, ret.args.id)].checklist

C26_Witness ==
    /\ ret.op = "get_task"
    /\ ret.result.outcome = "ok"
    /\ Len(ret.result.value.checklist) = 2
    /\ ret.result.value.checklist[1] = [description |-> "y", completed |-> TRUE]
    /\ ret.result.value.checklist[2] = [description |-> "x", completed |-> FALSE]

\* The _async_send call number k is suspended at its wait for `done`.
Waiting(ws, k) ==
    \E i \in 1..Len(ws) :
        ws[i].kind = "process_queue" /\ ws[i].call = k /\ ws[i].pc = "wait"

\* The wait of worker i's call ends in this step without `done` being set:
\* the timeout has passed.
TimesOut(i) ==
    /\ Resumes(i, {"process_queue"}, "wait")
    /\ ~workers[i].done
    /\ ~Waiting(workers', workers[i].call)

\* On a timeout the warning is in the log, the call's handler is
\* unsubscribed, the message is not sent again, and the loop dequeues the
\* next message of the queue or ends on an empty one.
C22_Step ==
    \A i \in 1..Len(workers) :
        TimesOut(i)
        => /\ log'.call = workers[i].call
           /\ TimedOutLine \in Range(log'.lines)
           /\ workers[i].call \notin handlers'
           /\ IF messages = <<>>
              THEN /\ sent' = sent
                   /\ handed' = handed
                   /\ ~processing'
              ELSE /\ handed' = Append(handed, Head(messages))
                   /\ messages' = Tail(messages)
                   /\ sent' = Append(sent, Head(messages))
                   /\ processing'

\* C22: when the wait for the session's idle signal times out, the panel
\* writes a timeout warning, removes its event handler and does not send
\* the message again: every dequeued message is passed to session.send at
\* most once, and the drain loop goes on to the next queued message.
C22_TimeoutNoRetry ==
    /\ [](Len(sent) <= Len(handed) /\ IsSubseq(sent, handed))
    /\ [][C22_Step]_vars

\* The first message timed out after a delta, and the second one was sent.
C22_Witness ==
    /\ log.call = 1
    /\ log.lines = <<SessionCreatedLine,
                     Line("Assistant:", <<Piece("", "x")>>),
                     TimedOutLine>>
    /\ sent = <<"a", "b">>
    /\ handed = <<"a", "b">>
    /\ handlers = {2}

\* The wait of worker i's call ends in this step with `done` set.
Answered(i) ==
    /\ Resumes(i, {"process_queue"}, "wait")
    /\ workers[i].done
    /\ ~Waiting(workers', workers[i].call)

C30_Step ==
    \A i \in 1..Len(workers) :
        (Answered(i) /\ ErrorText("e") \in Range(workers[i].response_parts))
        => /\ log'.call = workers[i].call
           /\ \E j \in 1..Len(log'.lines) :
                  ErrorText("e") \in Range(log'.lines[j].text)

\* C30: when the session emits session.error while a chat message is
\* handled, the error text is written to the chat log, whatever events
\* came before it, deltas with content included.
C30_ErrorTextLogged == [][C30_Step]_vars

\* C27: every accepted message is handed to _async_send without a further
\* submission, whatever session buttons are pressed in between: no message
\* is in the queue while no drain loop is scheduled or running (a cancelled
\* one that has not ended yet counts as running).
C27_NoStrandedMessage ==
    messages # <<>>
    => \E i \in 1..Len(workers) : workers[i].kind = "process_queue"

\* C23: execute(task) waits for the agent with a bound: once it awaits
\* the end of the turn it returns or raises, whether or not the session
\* ever emits session.idle, and it has destroyed its session when it
\* returns.
C23_ExecuteTerminates ==
    /\ (runner.pc = "wait") ~> (runner.pc \in {"returned", "raised"})
    /\ [](runner.pc = "returned" => runner.session = "destroyed")

\* Save is pressed in this step with an empty name or description.
SavesEmpty ==
    /\ form.screen = "form"
    /\ ret'.op = "_save_story"
    /\ ret'.args = [name |-> form.name, description |-> form.description]
    /\ strip[form.name] = "" \/ strip[form.description] = ""

C24_Step ==
    SavesEmpty => /\ story' = story
                  /\ task' = task
                  /\ form'.screen = "form"
                  /\ ret'.result.notify \in {"Name is required",
                                             "Description is required"}

\* C24: saving a story form whose name or description is empty persists
\* nothing and keeps the user on the form; a save leaves the form only
\* with both fields non-empty.
C24_EmptyFieldsKeepForm == [][C24_Step]_vars

\* Save was pressed with a name and a description of blanks only.
C24_Witness ==
    /\ ret.op = "_save_story"
    /\ ret.args.name = "a"
    /\ ret.args.description = " "
    /\ ret.result.notify = "Description is required"
    /\ form.screen = "form"
    /\ story = <<>>

====
